---- MODULE Spec2Model ----
(***************************************************************************)
(* The example notebook docs/examples/Lakeshore_625.ipynb: twelve code     *)
(* cells run top to bottom against a Lakeshore Model 625 superconducting   *)
(* magnet power supply, through the driver object `magnet`.                *)
(*                                                                         *)
(* The notebook's cells are modelled from the notebook.  The driver        *)
(* (qcodes_contrib_drivers.drivers.Lakeshore.Model_625) and the supply it  *)
(* talks to are not part of the notebook: they are modelled from what the  *)
(* notebook documents about them (its comments and its recorded outputs).  *)
(*                                                                         *)
(* Units (fixed point, all integers):                                      *)
(*   coil constant passed to the constructor   1e-7 T/A                    *)
(*   coil constant held by the supply          1e-5 T/A                    *)
(*   current                                   1e-4 A   (0.1 mA)           *)
(*   current ramp rate                         1e-3 A/s (1 mA/s)           *)
(*   field read or set on the supply           1e-6 T                      *)
(*   coil_const * target_current (cell 7)      1e-9 T                      *)
(*   field ramp rate                           1e-8 T/min                  *)
(*   one Tick of the supply                    0.1 s                       *)
(***************************************************************************)
EXTENDS Integers, Sequences, FiniteSets, TLC

VARIABLES pc, magnet, nb, stdout, calls, nonblocking, conv

vars == <<pc, magnet, nb, stdout, calls, nonblocking, conv>>

(***************************************************************************)
(* Arithmetic helpers.                                                     *)
(***************************************************************************)
Abs(x) == IF x < 0 THEN -x ELSE x

Min(a, b) == IF a <= b THEN a ELSE b

\* a / b rounded to the nearest integer (b > 0), halves away from zero.
RoundDiv(a, b) ==
  IF a >= 0 THEN (2 * a + b) \div (2 * b)
            ELSE -((2 * (-a) + b) \div (2 * b))

(***************************************************************************)
(* Bounds of the model.                                                    *)
(***************************************************************************)
\* The supply's measured current differs from its output current by at most
\* MeasErr (0.1 mA units); the notebook's readings show 1.4 mA at rest.
MeasErr == 14

\* The output currents the supply may be at before the notebook starts:
\* 0, InitStep, .., MaxInitSteps * InitStep (0.1 mA units), below, at and
\* above the targets of cells 7 and 9.
MaxInitSteps == 4

InitStep == 1000

InitCurrents == {k * InitStep : k \in 0..MaxInitSteps}

\* The measurement errors the model draws: both extremes and none.
ErrValues == {-MeasErr, 0, MeasErr}

\* The settings the supply may hold before the notebook constructs the driver.
InitRates == {50, 150, 300}

InitCoilConstants == {1000, 1666}

(***************************************************************************)
(* The notebook's literals.                                                *)
(***************************************************************************)
coil_constant_arg == 166614

field_ramp_rate_arg == 15000000

target_current_7 == 1000

field_9 == 5000

field_10 == 10000

field_ramp_rate_11a == 10000000

field_ramp_rate_11b == 20000000

\* The settings the snapshot of cell 5 shows and no cell writes.
snapshot_current_limit == 550000

snapshot_current_rate_limit == 300

snapshot_quench_current_step_limit == 400

(***************************************************************************)
(* The driver and the supply.                                              *)
(***************************************************************************)
ramping_state(m) == IF m.output # m.setpoint THEN "ramping" ELSE "not ramping"

coil_constant(m) == m.coil_constant

\* The supply holds the coil constant to 1e-5 T/A.
set_coil_constant(m, c) == [m EXCEPT !.coil_constant = RoundDiv(c, 100)]

current_ramp_rate(m) == m.current_ramp_rate

\* T/min = T/A * A/s * 60
field_ramp_rate(m) == coil_constant(m) * current_ramp_rate(m) * 60

\* The supply only works in current: a field ramp rate is stored as the
\* current ramp rate r / (coil_constant * 60), to the supply's 1 mA/s.
set_field_ramp_rate(m, r) ==
  [m EXCEPT !.current_ramp_rate = RoundDiv(r, coil_constant(m) * 60)]

\* The measured current, and the measured field the supply derives from it.
current(m) == m.output + m.meas_err

field(m) == RoundDiv(coil_constant(m) * current(m), 1000)

\* The output current the supply ramps to for a field setpoint f (1e-6 T).
setpoint_for(m, f) == RoundDiv(f * 1000, coil_constant(m))

SETF(m, f) == [m EXCEPT !.setpoint = setpoint_for(m, f)]

quench_detection(m) == m.quench_detection

quench_current_step_limit(m) == m.quench_current_step_limit

oer_quench(m) == m.oer_quench

current_limit(m) == m.current_limit

current_rate_limit(m) == m.current_rate_limit

\* One 0.1 s step of the supply's ramp: the output moves towards the setpoint
\* by at most the ramp rate; a quench is detected if detection is enabled and
\* the current rate is above the step limit.
Ramp(m, err) ==
  LET step == Min(m.current_ramp_rate, Abs(m.setpoint - m.output))
      out  == IF m.setpoint > m.output THEN m.output + step ELSE m.output - step
      q    == IF /\ m.quench_detection = "enabled"
                 /\ m.current_ramp_rate > m.quench_current_step_limit
              THEN "quench detected" ELSE m.oer_quench
  IN  [m EXCEPT !.output = out, !.meas_err = err, !.oer_quench = q]

(***************************************************************************)
(* The notebook's namespace and bookkeeping.                               *)
(***************************************************************************)
Assign(ns, name, v) ==
  [n \in (DOMAIN ns) \cup {name} |-> IF n = name THEN v ELSE ns[n]]

Defined(name) == name \in DOMAIN nb

\* A cell that uses a name no earlier cell defined stops the run.
NameError ==
  /\ pc' = "error"
  /\ UNCHANGED <<magnet, nb, stdout, calls, nonblocking, conv>>

Ran(n) == [calls EXCEPT ![n] = @ + 1]

Printed(n, line) == [stdout EXCEPT ![n] = Append(@, line)]

NoFloat == [m |-> 0, e |-> 0]

ConvIdle ==
  [pc |-> "idle", coil_const |-> NoFloat, target_current |-> NoFloat,
   target_field |-> NoFloat, field |-> NoFloat, current |-> NoFloat]

Init ==
  /\ pc = "c1"
  /\ \E i \in InitCurrents, err \in ErrValues,
        r \in InitRates, c \in InitCoilConstants :
       magnet = [coil_constant |-> c,
                 current_ramp_rate |-> r,
                 setpoint |-> i,
                 output |-> i,
                 meas_err |-> err,
                 current_limit |-> snapshot_current_limit,
                 current_rate_limit |-> snapshot_current_rate_limit,
                 quench_current_step_limit |-> snapshot_quench_current_step_limit,
                 quench_detection |-> "enabled",
                 oer_quench |-> "no quench detected"]
  /\ nb = <<>>
  /\ stdout = [n \in 1..12 |-> <<>>]
  /\ calls = [n \in 1..12 |-> 0]
  /\ nonblocking = 0
  /\ conv = ConvIdle

(***************************************************************************)
(* The driver's field set: write the setpoint to the supply and, in        *)
(* blocking mode, wait until the supply is no longer ramping.              *)
(***************************************************************************)
set_field(value, block, wait, next) ==
  /\ magnet' = SETF(magnet, value)
  /\ pc' = IF block THEN wait ELSE next
  /\ nonblocking' = IF block THEN nonblocking ELSE nonblocking + 1

set_field_return(wait, next) ==
  /\ pc = wait
  /\ ramping_state(magnet) = "not ramping"
  /\ pc' = next
  /\ UNCHANGED <<magnet, nb, stdout, calls, nonblocking, conv>>

\* print_readable_snapshot(update=True): every parameter is read and printed.
Snapshot(m) ==
  <<coil_constant(m), current(m), current_limit(m), current_ramp_rate(m),
    current_rate_limit(m), field(m), field_ramp_rate(m), oer_quench(m),
    quench_current_step_limit(m), quench_detection(m), ramping_state(m)>>

(***************************************************************************)
(* The notebook's cells.                                                   *)
(***************************************************************************)
\* import qcodes as qc
Cell1 ==
  /\ pc = "c1"
  /\ nb' = Assign(nb, "qc", 0)
  /\ calls' = Ran(1)
  /\ pc' = "c2"
  /\ UNCHANGED <<magnet, stdout, nonblocking, conv>>

\* from ...Model_625 import Lakeshore625
Cell2 ==
  /\ pc = "c2"
  /\ nb' = Assign(nb, "Lakeshore625", 0)
  /\ calls' = Ran(2)
  /\ pc' = "c3"
  /\ UNCHANGED <<magnet, stdout, nonblocking, conv>>

\* Mutant of Cell3: the two keyword values are swapped (coil_constant = 0.15,
\* field_ramp_rate = 0.0166614).
Cell3_swapped ==
  /\ pc = "c3"
  /\ magnet' = set_field_ramp_rate(set_coil_constant(magnet, 1500000), 1666140)
  /\ nb' = Assign(nb, "magnet", 0)
  /\ stdout' = Printed(3, <<"Connected to: LSCI 625">>)
  /\ calls' = Ran(3)
  /\ pc' = "c4"
  /\ UNCHANGED <<nonblocking, conv>>

\* magnet = Lakeshore625(name, address, coil_constant = .., field_ramp_rate = ..)
Cell3 ==
  /\ pc = "c3"
  /\ IF Defined("Lakeshore625") THEN
       /\ magnet' = set_field_ramp_rate(
                      set_coil_constant(magnet, coil_constant_arg),
                      field_ramp_rate_arg)
       /\ nb' = Assign(nb, "magnet", 0)
       /\ stdout' = Printed(3, <<"Connected to: LSCI 625">>)
       /\ calls' = Ran(3)
       /\ pc' = "c4"
       /\ UNCHANGED <<nonblocking, conv>>
     ELSE NameError

\* magnet.IDN()
Cell4 ==
  /\ pc = "c4"
  /\ IF Defined("magnet") THEN
       /\ stdout' = Printed(4, <<"LSCI", "625">>)
       /\ calls' = Ran(4)
       /\ pc' = "c5"
       /\ UNCHANGED <<magnet, nb, nonblocking, conv>>
     ELSE NameError

\* Mutant of Cell5: the run goes on with cell 7, cell 6 is left out.
Cell5_skips_cell6 ==
  /\ pc = "c5"
  /\ stdout' = Printed(5, Snapshot(magnet))
  /\ calls' = Ran(5)
  /\ pc' = "c7"
  /\ UNCHANGED <<magnet, nb, nonblocking, conv>>

\* magnet.print_readable_snapshot(update=True)
Cell5 ==
  /\ pc = "c5"
  /\ IF Defined("magnet") THEN
       /\ stdout' = Printed(5, Snapshot(magnet))
       /\ calls' = Ran(5)
       /\ pc' = "c6"
       /\ UNCHANGED <<magnet, nb, nonblocking, conv>>
     ELSE NameError

\* coil_const = magnet.coil_constant(); current_limit = ..; current_rate_limit = ..
Cell6 ==
  /\ pc = "c6"
  /\ IF Defined("magnet") THEN
       /\ nb' = Assign(Assign(Assign(nb,
                  "coil_const", coil_constant(magnet)),
                  "current_limit", current_limit(magnet)),
                  "current_rate_limit", current_rate_limit(magnet))
       /\ stdout' = Printed(6, <<coil_constant(magnet), current_limit(magnet),
                                 current_rate_limit(magnet)>>)
       /\ calls' = Ran(6)
       /\ pc' = "c7"
       /\ UNCHANGED <<magnet, nonblocking, conv>>
     ELSE NameError

\* target_current = 0.1; target_field = coil_const * target_current;
\* magnet.field(target_field)       (the call is issued; it blocks)
Cell7_set ==
  /\ pc = "c7"
  /\ IF Defined("coil_const") /\ Defined("magnet") THEN
       LET tf == nb["coil_const"] * target_current_7 IN
       /\ nb' = Assign(Assign(nb, "target_current", target_current_7),
                       "target_field", tf)
       /\ stdout' = Printed(7, <<"Target field", tf>>)
       /\ set_field(RoundDiv(tf, 1000), TRUE, "c7_wait", "c7_read")
       /\ calls' = Ran(7)
       /\ UNCHANGED conv
     ELSE NameError

Cell7_return == set_field_return("c7_wait", "c7_read")

\* field = magnet.field(); current = field / coil_const
Cell7_read ==
  /\ pc = "c7_read"
  /\ LET f == field(magnet)
         i == RoundDiv(f * 1000, nb["coil_const"])
     IN  /\ nb' = Assign(Assign(nb, "field", f), "current", i)
         /\ stdout' = Printed(7, <<"Measured", f, i>>)
  /\ pc' = "c8"
  /\ UNCHANGED <<magnet, calls, nonblocking, conv>>

\* magnet.field()
Cell8 ==
  /\ pc = "c8"
  /\ IF Defined("magnet") THEN
       /\ stdout' = Printed(8, <<field(magnet)>>)
       /\ calls' = Ran(8)
       /\ pc' = "c9"
       /\ UNCHANGED <<magnet, nb, nonblocking, conv>>
     ELSE NameError

\* Mutant of Cell9: the set is made with block=False.
Cell9_nonblocking ==
  /\ pc = "c9"
  /\ set_field(field_9, FALSE, "c9_wait", "c10")
  /\ calls' = Ran(9)
  /\ UNCHANGED <<nb, stdout, conv>>

\* magnet.field(0.005)              (blocking mode)
Cell9 ==
  /\ pc = "c9"
  /\ IF Defined("magnet") THEN
       /\ set_field(field_9, TRUE, "c9_wait", "c10")
       /\ calls' = Ran(9)
       /\ UNCHANGED <<nb, stdout, conv>>
     ELSE NameError

Cell9_return == set_field_return("c9_wait", "c10")

\* Mutant of Cell10: the set is made in blocking mode.
Cell10_blocking ==
  /\ pc = "c10"
  /\ set_field(field_10, TRUE, "c10_wait", "c11")
  /\ calls' = Ran(10)
  /\ UNCHANGED <<nb, stdout, conv>>

\* magnet.set_field(0.01, block=False)
Cell10 ==
  /\ pc = "c10"
  /\ IF Defined("magnet") THEN
       /\ set_field(field_10, FALSE, "c10_wait", "c11")
       /\ calls' = Ran(10)
       /\ UNCHANGED <<nb, stdout, conv>>
     ELSE NameError

\* Mutant of Cell11_set1: the two rates of cell 11 are set in the other order.
Cell11_set1_other_rate ==
  /\ pc = "c11"
  /\ magnet' = set_field_ramp_rate(magnet, field_ramp_rate_11b)
  /\ calls' = Ran(11)
  /\ pc' = "c11_read1"
  /\ UNCHANGED <<nb, stdout, nonblocking, conv>>

\* Mutant of Cell11_set1: magnet.set_field(0.1, block=False) is called instead
\* of magnet.field_ramp_rate(0.1).
Cell11_set1_sets_field ==
  /\ pc = "c11"
  /\ set_field(100000, FALSE, "c11", "c11_read1")
  /\ calls' = Ran(11)
  /\ UNCHANGED <<nb, stdout, conv>>

\* magnet.field_ramp_rate(0.1)
Cell11_set1 ==
  /\ pc = "c11"
  /\ IF Defined("magnet") THEN
       /\ magnet' = set_field_ramp_rate(magnet, field_ramp_rate_11a)
       /\ calls' = Ran(11)
       /\ pc' = "c11_read1"
       /\ UNCHANGED <<nb, stdout, nonblocking, conv>>
     ELSE NameError

\* Mutant of Cell11_read1: the read is written with an argument, which sets
\* the field ramp rate (to 0.15 T/min).
Cell11_read1_sets ==
  /\ pc = "c11_read1"
  /\ magnet' = set_field_ramp_rate(magnet, field_ramp_rate_arg)
  /\ stdout' = Printed(11, <<field_ramp_rate(magnet), current_ramp_rate(magnet)>>)
  /\ pc' = "c11_set2"
  /\ UNCHANGED <<nb, calls, nonblocking, conv>>

\* print(magnet.field_ramp_rate()); print(magnet.current_ramp_rate())
Cell11_read1 ==
  /\ pc = "c11_read1"
  /\ stdout' = Printed(11, <<field_ramp_rate(magnet), current_ramp_rate(magnet)>>)
  /\ pc' = "c11_set2"
  /\ UNCHANGED <<magnet, nb, calls, nonblocking, conv>>

\* Mutant of Cell11_set2: the rate set is 0.5 T/min.
Cell11_set2_fast ==
  /\ pc = "c11_set2"
  /\ magnet' = set_field_ramp_rate(magnet, 50000000)
  /\ pc' = "c11_read2"
  /\ UNCHANGED <<nb, stdout, calls, nonblocking, conv>>

\* magnet.field_ramp_rate(0.2)
Cell11_set2 ==
  /\ pc = "c11_set2"
  /\ magnet' = set_field_ramp_rate(magnet, field_ramp_rate_11b)
  /\ pc' = "c11_read2"
  /\ UNCHANGED <<nb, stdout, calls, nonblocking, conv>>

\* print(magnet.field_ramp_rate()); print(magnet.current_ramp_rate())
Cell11_read2 ==
  /\ pc = "c11_read2"
  /\ stdout' = Printed(11, <<field_ramp_rate(magnet), current_ramp_rate(magnet)>>)
  /\ pc' = "c12"
  /\ UNCHANGED <<magnet, nb, calls, nonblocking, conv>>

\* Mutant of Cell12: quench detection is written ('disabled') where the cell
\* reads it.
Cell12_disables ==
  /\ pc = "c12"
  /\ magnet' = [magnet EXCEPT !.quench_detection = "disabled"]
  /\ stdout' = Printed(12, <<"disabled", quench_current_step_limit(magnet),
                             oer_quench(magnet)>>)
  /\ calls' = Ran(12)
  /\ pc' = "done"
  /\ UNCHANGED <<nb, nonblocking, conv>>

\* print(magnet.quench_detection()); print(magnet.quench_current_step_limit());
\* print(magnet.oer_quench())
Cell12 ==
  /\ pc = "c12"
  /\ IF Defined("magnet") THEN
       /\ stdout' = Printed(12, <<quench_detection(magnet),
                                  quench_current_step_limit(magnet),
                                  oer_quench(magnet)>>)
       /\ calls' = Ran(12)
       /\ pc' = "done"
       /\ UNCHANGED <<magnet, nb, nonblocking, conv>>
     ELSE NameError

(***************************************************************************)
(* The supply ramps on its own while a setpoint is not reached.            *)
(***************************************************************************)
Tick ==
  /\ ramping_state(magnet) = "ramping"
  /\ \E err \in ErrValues : magnet' = Ramp(magnet, err)
  /\ UNCHANGED <<pc, nb, stdout, calls, nonblocking, conv>>

Notebook ==
  \/ Cell1 \/ Cell2 \/ Cell3 \/ Cell4 \/ Cell5 \/ Cell6
  \/ Cell7_set \/ Cell7_return \/ Cell7_read \/ Cell8
  \/ Cell9 \/ Cell9_return \/ Cell10
  \/ Cell11_set1 \/ Cell11_read1 \/ Cell11_set2 \/ Cell11_read2 \/ Cell12

Next == Notebook \/ Tick

Spec == Init /\ [][Next]_vars

\* The kernel runs the next statement and the supply keeps ramping.
FairSpec == Spec /\ WF_vars(Notebook) /\ WF_vars(Tick)

(***************************************************************************)
(* Cell 7's two conversions as Python computes them: in binary floating    *)
(* point, each product and quotient rounded to the nearest representable   *)
(* value, ties to even.  A float is m * 2^e with Prec bits in m.           *)
(***************************************************************************)
\* Bits of a float's significand in the model (a Python float has 53).
Prec == 5

\* Exponents of the inputs drawn: -MaxExp .. MaxExp.
MaxExp == 1

Floats ==
  {[m |-> m, e |-> e] : m \in (2^(Prec - 1))..(2^Prec - 1), e \in (-MaxExp)..MaxExp}

\* n / d rounded to the nearest integer, ties to even (n >= 0, d > 0).
RoundEven(n, d) ==
  LET q == n \div d
      r == n % d
  IN  IF 2 * r > d \/ (2 * r = d /\ q % 2 = 1) THEN q + 1 ELSE q

Renorm(m, e) ==
  IF m = 2^Prec THEN [m |-> 2^(Prec - 1), e |-> e + 1] ELSE [m |-> m, e |-> e]

FMul(a, b) ==
  LET M  == a.m * b.m
      sh == IF M >= 2^(2 * Prec - 1) THEN Prec ELSE Prec - 1
  IN  Renorm(RoundEven(M, 2^sh), a.e + b.e + sh)

FDiv(a, b) ==
  LET sh == IF a.m >= b.m THEN Prec - 1 ELSE Prec
  IN  Renorm(RoundEven(a.m * 2^sh, b.m), a.e - b.e - sh)

\* The neighbouring floats.
FSucc(a) == Renorm(a.m + 1, a.e)

FPred(a) ==
  IF a.m = 2^(Prec - 1) THEN [m |-> 2^Prec - 1, e |-> a.e - 1]
                        ELSE [m |-> a.m - 1, e |-> a.e]

\* The product a * b needs no rounding.
ExactProduct(a, b) ==
  LET M  == a.m * b.m
      sh == IF M >= 2^(2 * Prec - 1) THEN Prec ELSE Prec - 1
  IN  M % (2^sh) = 0

\* Mutant of current_of: the field is multiplied by the coil constant.
current_of_times(f, c) == FMul(f, c)

\* current = field / coil_const
current_of(f, c) == FDiv(f, c)

\* target_field = coil_const * target_current
target_field_of(c, t) == FMul(c, t)

ConvInit ==
  /\ pc = "conv"
  /\ magnet = [coil_constant |-> RoundDiv(coil_constant_arg, 100),
               current_ramp_rate |-> snapshot_current_rate_limit,
               setpoint |-> 0,
               output |-> 0,
               meas_err |-> 0,
               current_limit |-> snapshot_current_limit,
               current_rate_limit |-> snapshot_current_rate_limit,
               quench_current_step_limit |-> snapshot_quench_current_step_limit,
               quench_detection |-> "enabled",
               oer_quench |-> "no quench detected"]
  /\ nb = <<>>
  /\ stdout = [n \in 1..12 |-> <<>>]
  /\ calls = [n \in 1..12 |-> 0]
  /\ nonblocking = 0
  /\ \E c \in Floats, t \in Floats :
       conv = [ConvIdle EXCEPT !.pc = "target", !.coil_const = c,
                               !.target_current = t]

\* target_field = coil_const * target_current
ConvTarget ==
  /\ conv.pc = "target"
  /\ conv' = [conv EXCEPT !.pc = "field",
                !.target_field = target_field_of(conv.coil_const, conv.target_current)]
  /\ UNCHANGED <<pc, magnet, nb, stdout, calls, nonblocking>>

\* field = magnet.field(): the target field, or a reading next to it
ConvField ==
  /\ conv.pc = "field"
  /\ \E f \in {conv.target_field, FPred(conv.target_field), FSucc(conv.target_field)} :
       conv' = [conv EXCEPT !.pc = "current", !.field = f]
  /\ UNCHANGED <<pc, magnet, nb, stdout, calls, nonblocking>>

\* current = field / coil_const
ConvCurrent ==
  /\ conv.pc = "current"
  /\ conv' = [conv EXCEPT !.pc = "done",
                !.current = current_of(conv.field, conv.coil_const)]
  /\ UNCHANGED <<pc, magnet, nb, stdout, calls, nonblocking>>

ConvNext == ConvTarget \/ ConvField \/ ConvCurrent

SpecConv == ConvInit /\ [][ConvNext]_vars

(***************************************************************************)
(* Properties.                                                             *)
(***************************************************************************)
\* The notebook's statements in cell order.
PcOrder ==
  <<"c1", "c2", "c3", "c4", "c5", "c6", "c7", "c7_wait", "c7_read", "c8",
    "c9", "c9_wait", "c10", "c11", "c11_read1", "c11_set2", "c11_read2",
    "c12", "done">>

\* The place of a statement in that order; 0 for a place outside it.
Pos(l) ==
  IF \E i \in 1..Len(PcOrder) : PcOrder[i] = l
  THEN CHOOSE i \in 1..Len(PcOrder) : PcOrder[i] = l
  ELSE 0

\* The statements that only read the supply.
ReadPcs == {"c4", "c5", "c6", "c7_read", "c8", "c11_read1", "c11_read2", "c12"}

\* The field target, the ramp rate, the limits, the coil constant and the
\* quench detection switch.
Settings(m) ==
  <<m.setpoint, m.current_ramp_rate, m.current_limit, m.current_rate_limit,
    m.quench_current_step_limit, m.coil_constant, m.quench_detection>>

\* How far a field reading may be from a field setpoint f once the output
\* current is at setpoint_for(m, f): the measurement error, the setpoint's
\* 0.1 mA and the reading's 1e-6 T (1e-6 T units).
FieldTol(m) == (coil_constant(m) * (2 * MeasErr + 1)) \div 2000 + 1

\* The supply has finished the ramp to field f.
AtField(m, f) ==
  /\ ramping_state(m) = "not ramping"
  /\ m.output = setpoint_for(m, f)
  /\ Abs(field(m) - f) <= FieldTol(m)

\* What cell 11 printed when the notebook was recorded.
recorded_out_11 == << <<9996000, 100>>, <<19992000, 200>> >>

\* What the snapshot of cell 5 showed for coil_constant, current_ramp_rate
\* and field_ramp_rate when the notebook was recorded.
recorded_snapshot == <<1666, 150, 14994000>>

C3_FieldRampRateSetsCurrentRampRate ==
  /\ Pos(pc) \in (Pos("c4"))..(Pos("c11")) =>
       /\ current_ramp_rate(magnet) =
            RoundDiv(field_ramp_rate_arg, coil_constant(magnet) * 60)
       /\ current_ramp_rate(magnet) = recorded_snapshot[2]
       /\ field_ramp_rate(magnet) = recorded_snapshot[3]
  /\ pc \in {"c11_read1", "c11_set2"} =>
       /\ current_ramp_rate(magnet) =
            RoundDiv(field_ramp_rate_11a, coil_constant(magnet) * 60)
       /\ current_ramp_rate(magnet) = 100
  /\ pc \in {"c11_read2", "c12", "done"} =>
       /\ current_ramp_rate(magnet) =
            RoundDiv(field_ramp_rate_11b, coil_constant(magnet) * 60)
       /\ current_ramp_rate(magnet) = 200
  /\ \A k \in 1..Len(stdout[11]) :
       /\ stdout[11][k] = recorded_out_11[k]
       /\ stdout[11][k][1] = coil_constant(magnet) * stdout[11][k][2] * 60

\* C3's case: both rate changes of cell 11 were made and printed.
C3_Witness ==
  /\ pc = "c12"
  /\ Len(stdout[11]) = 2
  /\ current_ramp_rate(magnet) = 200

C5_ReadsValuesPassed ==
  pc = "c4" =>
    /\ coil_constant(magnet) * 100 = coil_constant_arg
    /\ field_ramp_rate(magnet) = field_ramp_rate_arg
    /\ ramping_state(magnet) = "not ramping"

\* C5, amended: right after the construction coil_constant() reads the c
\* passed rounded to the supply's 1e-5 T/A (0.01666), field_ramp_rate() reads
\* coil_constant() * current_ramp_rate() * 60 (0.14994 T/min), which is within
\* half a current-rate step (coil_constant * 60 / 2) of the r passed, and the
\* supply is not ramping: the construction has left the setpoint and the
\* output where they were.
C5_ReadsValuesPassedRounded ==
  pc = "c4" =>
    /\ coil_constant(magnet) = RoundDiv(coil_constant_arg, 100)
    /\ coil_constant(magnet) = recorded_snapshot[1]
    /\ field_ramp_rate(magnet) = recorded_snapshot[3]
    /\ 2 * Abs(field_ramp_rate(magnet) - field_ramp_rate_arg)
         <= coil_constant(magnet) * 60
    /\ ramping_state(magnet) = "not ramping"
    /\ magnet.output \in InitCurrents

\* C5's case: the driver was constructed on a supply that held another coil
\* constant and ramp rate, at a current other than zero.
C5_Witness ==
  /\ pc = "c4"
  /\ calls[3] = 1
  /\ magnet.output > 0
  /\ coil_constant(magnet) * 100 # coil_constant_arg

\* C6: quench detection is enabled from the construction on: no cell writes
\* it, and the snapshot of cell 5 and the read of cell 12 both show
\* 'enabled'.
C6_QuenchDetectionStaysEnabled ==
  /\ Pos(pc) >= Pos("c4") => quench_detection(magnet) = "enabled"
  /\ \A k \in 1..Len(stdout[5]) : stdout[5][k][10] = "enabled"
  /\ \A k \in 1..Len(stdout[12]) : stdout[12][k][1] = "enabled"

\* C6's case: the last cell has read quench detection, after the ramps.
C6_Witness ==
  /\ pc = "done"
  /\ Len(stdout[5]) = 1
  /\ Len(stdout[12]) = 1
  /\ stdout[12][1][1] = stdout[5][1][10]

C8_NoQuench ==
  /\ Pos(pc) >= Pos("c4") =>
       /\ current_ramp_rate(magnet) \in {150, 100, 200}
       /\ current_ramp_rate(magnet) <= current_rate_limit(magnet)
       /\ current_rate_limit(magnet) = snapshot_current_rate_limit
       /\ current_rate_limit(magnet) < quench_current_step_limit(magnet)
       /\ quench_current_step_limit(magnet) = snapshot_quench_current_step_limit
  /\ oer_quench(magnet) = "no quench detected"
  /\ \A k \in 1..Len(stdout[5]) : stdout[5][k][8] = "no quench detected"
  /\ \A k \in 1..Len(stdout[12]) : stdout[12][k][3] = "no quench detected"

\* C8's case: the supply ramps at the highest rate of the notebook with
\* quench detection enabled.
C8_Witness ==
  /\ Pos(pc) >= Pos("c11_read2")
  /\ current_ramp_rate(magnet) = 200
  /\ quench_detection(magnet) = "enabled"
  /\ ramping_state(magnet) = "ramping"
  /\ magnet.output # setpoint_for(magnet, field_9)

C10_LinearSequence ==
  /\ [][pc' # pc => (Pos(pc) >= 1 /\ Pos(pc') = Pos(pc) + 1)]_vars
  /\ [](\A n \in 1..12 : calls[n] <= 1)
  /\ [](\A n \in 4..12 : calls[n] = 1 => calls[3] = 1 /\ Defined("magnet"))
  /\ [](calls[7] = 1 => calls[6] = 1 /\ Defined("coil_const"))
  /\ [](pc = "done" => \A n \in 1..12 : calls[n] = 1)
  /\ <>(pc = "done")

\* C10's case: the run has ended with every cell run once.
C10_Witness ==
  /\ pc = "done"
  /\ \A n \in 1..12 : calls[n] = 1
  /\ ramping_state(magnet) = "not ramping"

====
